---- MODULE Spec2Model ----
(***************************************************************************)
(* Real-time messaging core of the CRM backend: chat sessions              *)
(* (ChatConsumer), the message pipeline (ChatConsumer.save_message, the    *)
(* post_save receiver handle_new_message, the Respond.IO webhook) and the  *)
(* read receipt (Message.mark_as_read).                                    *)
(*                                                                         *)
(* Every ORM call is one step of the worker that issues it: the store      *)
(* commits each statement on its own (no transaction.atomic around the     *)
(* handlers, ATOMIC_REQUESTS unset), and workers of different server       *)
(* processes interleave between statements.  A model instance read by a    *)
(* worker is kept in that worker's loc, as the Python object is.           *)
(*                                                                         *)
(* Timestamps are 1..MaxTime; 0 stands for a NULL timestamp.  A message id *)
(* is the row's position in the table (insertion order); 0 is "no row".    *)
(***************************************************************************)
EXTENDS Integers, Sequences, FiniteSets, TLC

\* ---------------------------------------------------------------- bounds
MaxMessages == 2
MaxTime == 2
MaxFailures == 1
MaxReads == 2
MaxTyping == 2
MaxNotifications == 2
MaxPushes == 1

\* ------------------------------------------------------------- constants
Sessions == {"s1", "s2"}
Webhooks == {"wh"}
Dispatchers == {"d1", "d2"}
Workers == Sessions \cup Webhooks \cup Dispatchers
NotifSessions == {"n1"}
Users == {"u1", "u2", "m1", "a1"}
Anonymous == "anon"
Principals == Users \cup {Anonymous}
ConvIds == {"c1"}
MissingConvIds == {"c0"}
None == "none"

Role(u) ==
    CASE u = "m1" -> "manager"
      [] u = "a1" -> "system_admin"
      [] OTHER -> "basic_user"

is_manager(u) == Role(u) = "manager"
is_system_admin(u) == Role(u) = "system_admin"
is_authenticated(p) == p \in Users

VARIABLES
    conversations,  \* Conversation rows: [ConvIds -> row]
    messages,       \* Message rows, in insertion order
    notifications,  \* Notification rows, in insertion order
    typing,         \* TypingIndicator rows
    room,           \* channel-layer group chat_<id>: [conversation id -> set of sessions]
    sess,           \* per chat session: user, conversation_id, state, accepted
    pc,             \* per worker: position in its handler
    loc,            \* per worker: the handler's local objects
    chan,           \* per session: events the channel layer queued for it
    out,            \* per session: frames sent to its client
    groupLog,       \* every group_send to a room, in order
    now,            \* the clock read by timezone.now()
    failures,       \* store errors raised so far
    preferences,    \* NotificationPreference rows
    ugroup,         \* channel-layer group user_<id>: [user -> set of notification sessions]
    nsess,          \* per notification session: user, state
    nchan,          \* per notification session: events the channel layer queued for it
    nout            \* per notification session: frames sent to its client

\* the state of the notification side, which the chat handlers never touch
notifVars == <<preferences, ugroup, nsess, nchan, nout>>

vars == <<conversations, messages, notifications, typing, room, sess, pc, loc, chan,
          out, groupLog, now, failures, preferences, ugroup, nsess, nchan, nout>>

NoConv == [id |-> None, status |-> None, assigned_user |-> None,
           message_count |-> 0, last_message_at |-> 0]

NoIndicator == [id |-> 0, conversation |-> None, user |-> None, is_typing |-> FALSE,
                last_activity |-> 0]

NoPref == [user |-> None, notification_type |-> None, delivery_method |-> None,
           is_enabled |-> FALSE, minimum_priority |-> None, quiet_hours_start |-> 0,
           quiet_hours_end |-> 0, weekend_enabled |-> FALSE, max_per_day |-> 0]

NoLoc == [conv |-> NoConv, content |-> "", reply_to_id |-> 0, reply_to |-> 0,
          msg |-> 0, read_flag |-> FALSE, outcome |-> "none",
          wrote_time |-> FALSE, wrote_count |-> FALSE, sent |-> FALSE,
          is_typing |-> FALSE, indicator |-> NoIndicator, changed |-> FALSE,
          notif |-> 0, method |-> 0, preference |-> NoPref, should |-> <<>>,
          push |-> FALSE, status |-> None, cutoff_time |-> 0]

\* --------------------------------------------------------- model helpers
is_from_customer(m) == m.sender_type = "customer"
is_from_user(m) == m.sender_type = "user"

MessageExists(id) == id \in 1..Len(messages)

Append2All(q, S, e) == [s \in DOMAIN q |-> IF s \in S THEN Append(q[s], e) ELSE q[s]]

\* channel_layer.group_send(room, event): one copy on the channel of every member
group_send(c, event) ==
    /\ chan' = Append2All(chan, room[c], event)
    /\ groupLog' = Append(groupLog, [group |-> c] @@ event)

\* ------------------------------------------------ Conversation Access Guard
\* mutant: any authenticated user may open an existing conversation
check_conversation_access_any(u, c) == c \in ConvIds

\* mutant: the role is tested before the row is fetched
check_conversation_access_role_first(u, c) ==
    IF is_system_admin(u) \/ is_manager(u) THEN TRUE
    ELSE c \in ConvIds /\ conversations[c].assigned_user = u

\* ChatConsumer.check_conversation_access: the row is fetched first, so a
\* missing conversation answers False whatever the role
check_conversation_access(u, c) ==
    IF c \notin ConvIds THEN FALSE
    ELSE IF is_system_admin(u) \/ is_manager(u) THEN TRUE
    ELSE conversations[c].assigned_user = u

\* ChatConsumer.connect, lines 28-37: the two checks that decide close or join
connect_allowed(p, c) ==
    IF ~is_authenticated(p) THEN FALSE
    ELSE check_conversation_access(p, c)

\* ------------------------------------------------------- handler plumbing
Finish(w, how) ==
    /\ pc' = [pc EXCEPT ![w] = "idle"]
    /\ loc' = [loc EXCEPT ![w].outcome = how]

InFlight == Cardinality({w \in Workers : pc[w] \in {"save_get", "save_reply", "save_create"}})

ReadEvents == Cardinality({k \in 1..Len(groupLog) : groupLog[k].type = "message_read"})
ReadInFlight == Cardinality({w \in Workers : pc[w] \in {"read_get", "read_save", "read_send"}})

TypingEvents == Cardinality({k \in 1..Len(groupLog) : groupLog[k].type = "typing_indicator"})
TypingInFlight ==
    Cardinality({w \in Workers : pc[w] \in {"typ_get", "typ_select", "typ_insert", "typ_reget",
                                            "typ_save", "typ_stop", "typ_send"}})

ConvOf(w) == IF w \in Sessions THEN sess[w].conversation_id ELSE "c1"

\* json.loads succeeded or raised; the fields are what data.get(...) returns
Frame(json, type, content, reply_to, message_id) ==
    [json |-> json, type |-> type, content |-> content, reply_to |-> reply_to,
     message_id |-> message_id]

ReadFrames ==
    {Frame(TRUE, "message_read", "", 0, 1),
     Frame(TRUE, "message_read", "", 0, 2)}

TypingFrames ==
    {Frame(TRUE, "typing_start", "", 0, 0),
     Frame(TRUE, "typing_stop", "", 0, 0)}

ChatFrames ==
    {Frame(FALSE, "", "", 0, 0),
     Frame(TRUE, "chat_message", "", 0, 0),
     Frame(TRUE, "chat_message", "hi", 0, 0)}

\* ChatConsumer.receive with handle_chat_message / handle_message_read up to
\* their first await on the store
receive(s, f) ==
    /\ sess[s].state = "joined"
    /\ pc[s] = "idle"
    /\ IF ~f.json
       THEN \* json.JSONDecodeError: logged, nothing else
            /\ pc' = pc
            /\ loc' = [loc EXCEPT ![s] = [NoLoc EXCEPT !.outcome = "invalid"]]
       ELSE IF f.type = "chat_message"
       THEN IF f.content = ""
            THEN \* if not content: return
                 /\ pc' = pc
                 /\ loc' = [loc EXCEPT ![s] = [NoLoc EXCEPT !.outcome = "invalid"]]
            ELSE /\ Len(messages) + InFlight < MaxMessages
                 /\ pc' = [pc EXCEPT ![s] = "save_get"]
                 /\ loc' = [loc EXCEPT ![s] = [NoLoc EXCEPT !.content = f.content,
                                                            !.reply_to_id = f.reply_to,
                                                            !.outcome = "running"]]
       ELSE IF f.type \in {"typing_start", "typing_stop"}
       THEN \* handle_typing_start / handle_typing_stop: self.set_typing(flag)
            /\ TypingEvents + TypingInFlight < MaxTyping
            /\ pc' = [pc EXCEPT ![s] = "typ_get"]
            /\ loc' = [loc EXCEPT ![s] = [NoLoc EXCEPT !.is_typing = (f.type = "typing_start"),
                                                       !.outcome = "running"]]
       ELSE IF f.type = "message_read" /\ f.message_id # 0
       THEN /\ ReadEvents + ReadInFlight < MaxReads
            /\ pc' = [pc EXCEPT ![s] = "read_get"]
            /\ loc' = [loc EXCEPT ![s] = [NoLoc EXCEPT !.msg = f.message_id,
                                                       !.outcome = "running"]]
       ELSE \* an unknown type, or message_read without an id: nothing
            /\ pc' = pc
            /\ loc' = [loc EXCEPT ![s] = [NoLoc EXCEPT !.outcome = "ignored"]]
    /\ UNCHANGED notifVars
    /\ UNCHANGED <<conversations, messages, notifications, typing, room, sess, chan, out,
                   groupLog, now, failures>>

ReceiveChat(s) == \E f \in ChatFrames : receive(s, f)

\* chat_message frames that carry reply_to: the id of message 1, or an id no
\* message has
MissingMessageId == MaxMessages + 1

ReplyFrames ==
    {Frame(TRUE, "chat_message", "hi", 1, 0),
     Frame(TRUE, "chat_message", "hi", MissingMessageId, 0)}

ReceiveReply(s) == \E f \in ReplyFrames : receive(s, f)

ReceiveRead(s) == \E f \in ReadFrames : receive(s, f)

ReceiveTyping(s) == \E f \in TypingFrames : receive(s, f)

\* --------------------------------------------------- ChatConsumer.save_message
\* Conversation.objects.get(id=self.conversation_id)
SaveGet(w) ==
    /\ pc[w] = "save_get"
    /\ IF ConvOf(w) \in ConvIds
       THEN /\ loc' = [loc EXCEPT ![w].conv = conversations[ConvOf(w)]]
            /\ pc' = [pc EXCEPT ![w] =
                        IF loc[w].reply_to_id # 0 THEN "save_reply" ELSE "save_create"]
       ELSE Finish(w, "failed")
    /\ UNCHANGED notifVars
    /\ UNCHANGED <<conversations, messages, notifications, typing, room, sess, chan, out,
                   groupLog, now, failures>>

\* Message.objects.get(id=reply_to_id); Message.DoesNotExist leaves reply_to None
SaveReply(w) ==
    /\ pc[w] = "save_reply"
    /\ loc' = [loc EXCEPT ![w].reply_to =
                 IF MessageExists(loc[w].reply_to_id) THEN loc[w].reply_to_id ELSE 0]
    /\ pc' = [pc EXCEPT ![w] = "save_create"]
    /\ UNCHANGED notifVars
    /\ UNCHANGED <<conversations, messages, notifications, typing, room, sess, chan, out,
                   groupLog, now, failures>>

\* The row Message.objects.create(...) inserts: save_message for a session,
\* RespondIOMessageWebhook.post for the webhook.  The strings are the ones the
\* callers pass; create() does not validate them against the choices.
NewMessage(w) ==
    [id |-> Len(messages) + 1,
     conversation |-> loc[w].conv.id,
     content |-> loc[w].content,
     sender_type |-> IF w \in Sessions THEN "User" ELSE "Customer",
     sender_user |-> IF w \in Sessions THEN sess[w].user ELSE None,
     sender_customer |-> IF w \in Sessions THEN None ELSE "k1",
     status |-> IF w \in Sessions THEN "Sent" ELSE "Delivered",
     read_by_user |-> FALSE,
     read_at |-> 0,
     reply_to |-> loc[w].reply_to,
     created_at |-> now,
     sent_at |-> now]

SaveCreate(w) ==
    /\ pc[w] = "save_create"
    /\ messages' = Append(messages, NewMessage(w))
    /\ loc' = [loc EXCEPT ![w].msg = Len(messages) + 1]
    /\ pc' = [pc EXCEPT ![w] = "sig_time"]
    /\ UNCHANGED notifVars
    /\ UNCHANGED <<conversations, notifications, typing, room, sess, chan, out, groupLog,
                   now, failures>>

\* ------------------------------------------- post_save: handle_new_message
\* conversation.update_last_message_time(): the instance read by the caller,
\* saved with update_fields=['last_message_at', 'updated_at']
update_last_message_time(w) ==
    /\ loc' = [loc EXCEPT ![w].conv.last_message_at = now, ![w].wrote_time = TRUE]
    /\ conversations' = [conversations EXCEPT ![loc[w].conv.id].last_message_at = now]

SigTime(w) ==
    /\ pc[w] = "sig_time"
    /\ update_last_message_time(w)
    /\ pc' = [pc EXCEPT ![w] = "sig_count"]
    /\ UNCHANGED notifVars
    /\ UNCHANGED <<messages, notifications, typing, room, sess, chan, out, groupLog, now,
                   failures>>

\* conversation.increment_message_count(): self.message_count += 1 on the
\* instance, then save(update_fields=['message_count', 'updated_at'])
increment_message_count(row) == row.message_count + 1

\* where the worker goes once handle_new_message has returned
AfterSignal(w) ==
    IF is_from_customer(messages[loc[w].msg]) THEN "sig_customer"
    ELSE IF w \in Sessions THEN "broadcast" ELSE "idle"

SigCount(w) ==
    /\ pc[w] = "sig_count"
    /\ conversations' = [conversations EXCEPT ![loc[w].conv.id].message_count =
                            increment_message_count(loc[w].conv)]
    /\ loc' = [loc EXCEPT ![w].conv.message_count = increment_message_count(loc[w].conv),
                          ![w].wrote_count = TRUE,
                          ![w].outcome = IF AfterSignal(w) = "idle" THEN "ok" ELSE @]
    /\ pc' = [pc EXCEPT ![w] = AfterSignal(w)]
    /\ UNCHANGED notifVars
    /\ UNCHANGED <<messages, notifications, typing, room, sess, chan, out, groupLog, now,
                   failures>>

\* ------------------------------------- ChatConsumer.handle_chat_message, tail
Broadcast(s) ==
    /\ pc[s] = "broadcast"
    /\ group_send(sess[s].conversation_id,
                  [type |-> "chat_message", id |-> loc[s].msg, user |-> sess[s].user,
                   at |-> messages[loc[s].msg].sent_at])
    /\ pc' = [pc EXCEPT ![s] = "idle"]
    /\ loc' = [loc EXCEPT ![s].sent = TRUE, ![s].outcome = "ok"]
    /\ UNCHANGED notifVars
    /\ UNCHANGED <<conversations, messages, notifications, typing, room, sess, out, now,
                   failures>>

\* ChatConsumer.chat_message: forward the group event to the client
chat_message(s) ==
    /\ sess[s].state = "joined"
    /\ pc[s] = "idle"
    /\ chan[s] # <<>>
    /\ Head(chan[s]).type = "chat_message"
    /\ out' = [out EXCEPT ![s] = Append(@, Head(chan[s]))]
    /\ chan' = [chan EXCEPT ![s] = Tail(@)]
    /\ UNCHANGED notifVars
    /\ UNCHANGED <<conversations, messages, notifications, typing, room, sess, pc, loc,
                   groupLog, now, failures>>

\* ------------------------------------------------ ChatConsumer.connect
NewSession == [user |-> None, conversation_id |-> None, state |-> "connecting",
               accepted |-> FALSE, disconnected |-> FALSE]

connect(s, p, c) ==
    /\ sess[s].state = "connecting"
    /\ IF connect_allowed(p, c)
       THEN \* group_add, then accept
            /\ room' = [room EXCEPT ![c] = @ \cup {s}]
            /\ sess' = [sess EXCEPT ![s] = [NewSession EXCEPT !.user = p,
                                                             !.conversation_id = c,
                                                             !.state = "joined",
                                                             !.accepted = TRUE]]
       ELSE \* self.close() and return
            /\ room' = room
            /\ sess' = [sess EXCEPT ![s] = [NewSession EXCEPT !.user = p,
                                                             !.conversation_id = c,
                                                             !.state = "closed"]]
    /\ UNCHANGED notifVars
    /\ UNCHANGED <<conversations, messages, notifications, typing, pc, loc, chan, out,
                   groupLog, now, failures>>

\* mutant: the rows are left as they are
TypingIndicator_stop_typing_skip(c, u) == typing

\* TypingIndicator.stop_typing: filter(conversation, user).update(is_typing=False)
TypingIndicator_stop_typing(c, u) ==
    {IF r.conversation = c /\ r.user = u THEN [r EXCEPT !.is_typing = FALSE] ELSE r :
        r \in typing}

\* ChatConsumer.stop_typing: any exception (a missing conversation, an
\* anonymous user in the filter) is logged and nothing is written
stop_typing(s) ==
    IF sess[s].conversation_id \in ConvIds /\ is_authenticated(sess[s].user)
    THEN TypingIndicator_stop_typing(sess[s].conversation_id, sess[s].user)
    ELSE typing

\* websocket.disconnect reaches the consumer (after a close() in connect too):
\* ChatConsumer.disconnect up to its second await
disconnect(s) ==
    /\ sess[s].state \in {"joined", "closed"}
    /\ ~sess[s].disconnected
    /\ pc[s] = "idle"
    /\ typing' = stop_typing(s)
    /\ sess' = [sess EXCEPT ![s].state = "closed"]
    /\ pc' = [pc EXCEPT ![s] = "disc_leave"]
    /\ UNCHANGED notifVars
    /\ UNCHANGED <<conversations, messages, notifications, room, loc, chan, out,
                   groupLog, now, failures>>

\* ChatConsumer.disconnect, group_discard
DisconnectLeave(s) ==
    /\ pc[s] = "disc_leave"
    /\ room' = [room EXCEPT ![sess[s].conversation_id] = @ \ {s}]
    /\ sess' = [sess EXCEPT ![s].disconnected = TRUE]
    /\ pc' = [pc EXCEPT ![s] = "idle"]
    /\ UNCHANGED notifVars
    /\ UNCHANGED <<conversations, messages, notifications, typing, loc, chan, out,
                   groupLog, now, failures>>

\* ------------------------------------------------------ typing indicators
\* the TypingIndicator rows of one (conversation, user) pair
IndicatorsOf(c, u) == {r \in typing : r.conversation = c /\ r.user = u}

\* the primary key of the next row (a fresh uuid4): one no row has and no
\* worker holds
IndicatorIdMax(ids) == IF ids = {} THEN 0 ELSE CHOOSE i \in ids : \A j \in ids : j <= i

NextIndicatorId ==
    IndicatorIdMax({r.id : r \in typing} \cup {loc[w].indicator.id : w \in Workers}) + 1

\* mutant: the table carries no unique constraint
unique_together_none(c, u) == FALSE

\* Meta.unique_together = ['conversation', 'user']: an INSERT for a pair that
\* has a row raises IntegrityError
unique_together(c, u) == IndicatorsOf(c, u) # {}

\* ChatConsumer.set_typing: Conversation.objects.get(id=self.conversation_id);
\* a missing conversation raises, the exception is logged and the handler goes
\* on to its group_send
TypGet(s) ==
    /\ pc[s] = "typ_get"
    /\ pc' = [pc EXCEPT ![s] =
                IF sess[s].conversation_id \notin ConvIds THEN "typ_send"
                ELSE IF loc[s].is_typing THEN "typ_select" ELSE "typ_stop"]
    /\ UNCHANGED notifVars
    /\ UNCHANGED <<conversations, messages, notifications, typing, room, sess, loc, chan,
                   out, groupLog, now, failures>>

\* get_or_create's self.get(conversation=..., user=...) and what set_typing
\* does with the instance: created is False, so the flag is compared and saved
\* only if it differs.  missing is where the worker goes on DoesNotExist;
\* MultipleObjectsReturned is raised to ChatConsumer.set_typing and logged.
indicator_get(s, missing) ==
    LET rows == IndicatorsOf(sess[s].conversation_id, sess[s].user) IN
    IF rows = {}
    THEN /\ pc' = [pc EXCEPT ![s] = missing]
         /\ loc' = loc
    ELSE IF Cardinality(rows) > 1
    THEN /\ pc' = [pc EXCEPT ![s] = "typ_send"]
         /\ loc' = [loc EXCEPT ![s].outcome = "failed"]
    ELSE LET r == CHOOSE x \in rows : TRUE IN
         /\ loc' = [loc EXCEPT ![s].indicator = r]
         /\ pc' = [pc EXCEPT ![s] =
                     IF r.is_typing # loc[s].is_typing THEN "typ_save" ELSE "typ_send"]

TypSelect(s) ==
    /\ pc[s] = "typ_select"
    /\ indicator_get(s, "typ_insert")
    /\ UNCHANGED notifVars
    /\ UNCHANGED <<conversations, messages, notifications, typing, room, sess, chan, out,
                   groupLog, now, failures>>

\* get_or_create's self.create(conversation, user, is_typing=defaults): the
\* row is inserted unless the pair has got one meanwhile
TypInsert(s) ==
    /\ pc[s] = "typ_insert"
    /\ IF unique_together(sess[s].conversation_id, sess[s].user)
       THEN /\ typing' = typing
            /\ loc' = loc
            /\ pc' = [pc EXCEPT ![s] = "typ_reget"]
       ELSE /\ typing' = typing \cup
                           {[id |-> NextIndicatorId,
                             conversation |-> sess[s].conversation_id,
                             user |-> sess[s].user,
                             is_typing |-> loc[s].is_typing,
                             last_activity |-> now]}
            /\ loc' = [loc EXCEPT ![s].changed = TRUE]
            /\ pc' = [pc EXCEPT ![s] = "typ_send"]
    /\ UNCHANGED notifVars
    /\ UNCHANGED <<conversations, messages, notifications, room, sess, chan, out,
                   groupLog, now, failures>>

\* get_or_create after IntegrityError: self.get again; if the row has gone the
\* IntegrityError is re-raised (and logged by ChatConsumer.set_typing)
TypReget(s) ==
    /\ pc[s] = "typ_reget"
    /\ indicator_get(s, "typ_send")
    /\ UNCHANGED notifVars
    /\ UNCHANGED <<conversations, messages, notifications, typing, room, sess, chan, out,
                   groupLog, now, failures>>

\* indicator.save(update_fields=['is_typing', 'last_activity']): an UPDATE of
\* the row with the instance's primary key; last_activity is auto_now
TypSave(s) ==
    /\ pc[s] = "typ_save"
    /\ typing' = {IF r.id = loc[s].indicator.id
                  THEN [r EXCEPT !.is_typing = loc[s].is_typing, !.last_activity = now]
                  ELSE r : r \in typing}
    /\ loc' = [loc EXCEPT ![s].changed =
                 \E r \in typing : r.id = loc[s].indicator.id
                                    /\ r.is_typing # loc[s].is_typing]
    /\ pc' = [pc EXCEPT ![s] = "typ_send"]
    /\ UNCHANGED notifVars
    /\ UNCHANGED <<conversations, messages, notifications, room, sess, chan, out,
                   groupLog, now, failures>>

\* ChatConsumer.set_typing(False): TypingIndicator.stop_typing
TypStop(s) ==
    /\ pc[s] = "typ_stop"
    /\ typing' = TypingIndicator_stop_typing(sess[s].conversation_id, sess[s].user)
    /\ loc' = [loc EXCEPT ![s].changed =
                 \E r \in IndicatorsOf(sess[s].conversation_id, sess[s].user) : r.is_typing]
    /\ pc' = [pc EXCEPT ![s] = "typ_send"]
    /\ UNCHANGED notifVars
    /\ UNCHANGED <<conversations, messages, notifications, room, sess, chan, out,
                   groupLog, now, failures>>

\* handle_typing_start / handle_typing_stop, the group_send that follows
\* set_typing whatever set_typing did
TypSend(s) ==
    /\ pc[s] = "typ_send"
    /\ group_send(sess[s].conversation_id,
                  [type |-> "typing_indicator", user |-> sess[s].user,
                   is_typing |-> loc[s].is_typing])
    /\ pc' = [pc EXCEPT ![s] = "idle"]
    /\ loc' = [loc EXCEPT ![s].sent = TRUE,
                          ![s].outcome = IF @ = "running" THEN "ok" ELSE @]
    /\ UNCHANGED notifVars
    /\ UNCHANGED <<conversations, messages, notifications, typing, room, sess, out, now,
                   failures>>

\* -------------------------------- TypingIndicator.cleanup_old_indicators
\* the default of older_than_minutes; the clock of a sweep counts minutes
older_than_minutes == 5

Sweepers == {"d1"}

\* mutant: nothing is deleted
cleanup_old_indicators_none(rows, cutoff_time) == rows

\* filter(last_activity__lt=cutoff_time).delete(): the rows that are left
cleanup_old_indicators(rows, cutoff_time) ==
    {r \in rows : ~(r.last_activity < cutoff_time)}

\* cutoff_time = timezone.now() - timedelta(minutes=older_than_minutes)
SweepCutoff(w) ==
    /\ pc[w] = "idle"
    /\ loc' = [loc EXCEPT ![w] = [NoLoc EXCEPT !.cutoff_time = now - older_than_minutes,
                                               !.outcome = "running"]]
    /\ pc' = [pc EXCEPT ![w] = "sweep_delete"]
    /\ UNCHANGED notifVars
    /\ UNCHANGED <<conversations, messages, notifications, typing, room, sess, chan, out,
                   groupLog, now, failures>>

\* the DELETE statement; changed is whether it deleted a row
SweepDelete(w) ==
    /\ pc[w] = "sweep_delete"
    /\ typing' = cleanup_old_indicators(typing, loc[w].cutoff_time)
    /\ loc' = [loc EXCEPT ![w].changed =
                              cleanup_old_indicators(typing, loc[w].cutoff_time) # typing,
                          ![w].outcome = "ok"]
    /\ pc' = [pc EXCEPT ![w] = "idle"]
    /\ UNCHANGED notifVars
    /\ UNCHANGED <<conversations, messages, notifications, room, sess, chan, out, groupLog,
                   now, failures>>

\* ChatConsumer.typing_indicator: forwarded unless the event is the member's own
typing_indicator(s) ==
    /\ sess[s].state = "joined"
    /\ pc[s] = "idle"
    /\ chan[s] # <<>>
    /\ Head(chan[s]).type = "typing_indicator"
    /\ out' = [out EXCEPT ![s] = IF Head(chan[s]).user # sess[s].user
                                 THEN Append(@, Head(chan[s])) ELSE @]
    /\ chan' = [chan EXCEPT ![s] = Tail(@)]
    /\ UNCHANGED notifVars
    /\ UNCHANGED <<conversations, messages, notifications, typing, room, sess, pc, loc,
                   groupLog, now, failures>>

\* ------------------------------------------------ NotificationConsumer
NewNSession == [user |-> None, state |-> "connecting", disconnected |-> FALSE]

JoinedNSession(u) == [user |-> u, state |-> "joined", disconnected |-> FALSE]

\* connect: an anonymous scope is closed before user_group_name is set
NConnect(n, p) ==
    /\ nsess[n].state = "connecting"
    /\ IF is_authenticated(p)
       THEN /\ ugroup' = [ugroup EXCEPT ![p] = @ \cup {n}]
            /\ nsess' = [nsess EXCEPT ![n] = JoinedNSession(p)]
       ELSE /\ ugroup' = ugroup
            /\ nsess' = [nsess EXCEPT ![n] = [NewNSession EXCEPT !.user = p,
                                                                !.state = "closed"]]
    /\ UNCHANGED <<conversations, messages, notifications, typing, room, sess, pc, loc,
                   chan, out, groupLog, now, failures, preferences, nchan, nout>>

\* disconnect: group_discard(self.user_group_name, self.channel_name); after a
\* close() in connect the attribute is missing and the handler raises
NDisconnect(n) ==
    /\ nsess[n].state \in {"joined", "closed"}
    /\ ~nsess[n].disconnected
    /\ ugroup' = IF is_authenticated(nsess[n].user)
                 THEN [ugroup EXCEPT ![nsess[n].user] = @ \ {n}]
                 ELSE ugroup
    /\ nsess' = [nsess EXCEPT ![n].state = "closed", ![n].disconnected = TRUE]
    /\ UNCHANGED <<conversations, messages, notifications, typing, room, sess, pc, loc,
                   chan, out, groupLog, now, failures, preferences, nchan, nout>>

\* NotificationConsumer.notification: forward the group event to the client
notification(n) ==
    /\ nsess[n].state = "joined"
    /\ nchan[n] # <<>>
    /\ nout' = [nout EXCEPT ![n] = Append(@, Head(nchan[n]))]
    /\ nchan' = [nchan EXCEPT ![n] = Tail(@)]
    /\ UNCHANGED <<conversations, messages, notifications, typing, room, sess, pc, loc,
                   chan, out, groupLog, now, failures, preferences, ugroup, nsess>>

\* ------------------------------------------------- notification dispatch
\* Notification.Priority and the priority_order dict of should_send_notification
Priorities == {"low", "normal", "high", "urgent"}

priority_order(p) ==
    CASE p = "low" -> 0
      [] p = "normal" -> 1
      [] p = "high" -> 2
      [] p = "urgent" -> 3

\* delivery_methods, in the order process_notification walks them
DeliveryMethods == <<"in_app", "email", "push">>

\* The clock: DayLen instants to the day, a time of day is 1..DayLen (0 is a
\* NULL TimeField), day 0 is a Monday
DayLen == 4
TimeOfDay(t) == ((t - 1) % DayLen) + 1
Date(t) == (t - 1) \div DayLen
Weekday(t) == Date(t) % 7

\* NotificationPreference.is_in_quiet_hours at instant t
is_in_quiet_hours(pref, t) ==
    IF ~(pref.quiet_hours_start # 0 /\ pref.quiet_hours_end # 0) THEN FALSE
    ELSE IF pref.quiet_hours_start <= pref.quiet_hours_end
    THEN pref.quiet_hours_start <= TimeOfDay(t) /\ TimeOfDay(t) <= pref.quiet_hours_end
    ELSE TimeOfDay(t) >= pref.quiet_hours_start \/ TimeOfDay(t) <= pref.quiet_hours_end

\* NotificationPreference.is_weekend_and_disabled at instant t
is_weekend_and_disabled(pref, t) ==
    IF pref.weekend_enabled THEN FALSE ELSE Weekday(t) >= 5

\* Notification.objects.filter(recipient, notification_type,
\* created_at__date=today).count()
today_count(pref, t) ==
    Cardinality({k \in 1..Len(notifications) :
                    /\ notifications[k].recipient = pref.user
                    /\ notifications[k].notification_type = pref.notification_type
                    /\ Date(notifications[k].created_at) = Date(t)})

\* mutant: a notification at the minimum priority is refused too
should_send_notification_above(pref, n, t) ==
    IF ~pref.is_enabled THEN FALSE
    ELSE IF priority_order(n.priority) <= priority_order(pref.minimum_priority) THEN FALSE
    ELSE IF is_in_quiet_hours(pref, t) /\ n.priority # "urgent" THEN FALSE
    ELSE IF is_weekend_and_disabled(pref, t) /\ n.priority # "urgent" THEN FALSE
    ELSE IF pref.max_per_day # 0 /\ today_count(pref, t) >= pref.max_per_day THEN FALSE
    ELSE TRUE

\* NotificationPreference.should_send_notification(notification) at instant t
should_send_notification(pref, n, t) ==
    IF ~pref.is_enabled THEN FALSE
    ELSE IF priority_order(n.priority) < priority_order(pref.minimum_priority) THEN FALSE
    ELSE IF is_in_quiet_hours(pref, t) /\ n.priority # "urgent" THEN FALSE
    ELSE IF is_weekend_and_disabled(pref, t) /\ n.priority # "urgent" THEN FALSE
    ELSE IF pref.max_per_day # 0 /\ today_count(pref, t) >= pref.max_per_day THEN FALSE
    ELSE TRUE

\* mutant: the default lets every priority through
DefaultPref_low(u, ntype, method) ==
    [user |-> u, notification_type |-> ntype, delivery_method |-> method,
     is_enabled |-> TRUE, minimum_priority |-> "low", quiet_hours_start |-> 0,
     quiet_hours_end |-> 0, weekend_enabled |-> TRUE, max_per_day |-> 0]

\* the instance get_user_preference builds on DoesNotExist; the fields it does
\* not pass take the model's defaults
DefaultPref(u, ntype, method) ==
    [user |-> u, notification_type |-> ntype, delivery_method |-> method,
     is_enabled |-> TRUE, minimum_priority |-> "normal", quiet_hours_start |-> 0,
     quiet_hours_end |-> 0, weekend_enabled |-> TRUE, max_per_day |-> 0]

\* NotificationPreference.get_user_preference
get_user_preference(u, ntype, method) ==
    LET rows == {r \in preferences : /\ r.user = u
                                     /\ r.notification_type = ntype
                                     /\ r.delivery_method = method} IN
    IF rows = {} THEN DefaultPref(u, ntype, method) ELSE CHOOSE r \in rows : TRUE

\* the row Notification.objects.create(...) inserts
NewNotification(u, ntype, priority, object) ==
    [id |-> Len(notifications) + 1, recipient |-> u, notification_type |-> ntype,
     priority |-> priority, status |-> "pending", in_app_delivered |-> FALSE,
     email_delivered |-> FALSE, push_delivered |-> FALSE, object_id |-> object,
     created_at |-> now, sent_at |-> 0]

\* Notification.create_notification from worker d; push says whether the
\* caller goes on to send_notification_to_user.  post_save runs
\* process_notification inside the create, starting with the first method.
create_notification(d, u, ntype, priority, push) ==
    /\ pc[d] = "idle"
    /\ Len(notifications) < MaxNotifications
    /\ notifications' = Append(notifications, NewNotification(u, ntype, priority, 0))
    /\ loc' = [loc EXCEPT ![d] = [NoLoc EXCEPT !.notif = Len(notifications) + 1,
                                               !.method = 1,
                                               !.push = push,
                                               !.outcome = "running"]]
    /\ pc' = [pc EXCEPT ![d] = "np_pref"]
    /\ UNCHANGED notifVars
    /\ UNCHANGED <<conversations, messages, typing, room, sess, chan, out, groupLog, now,
                   failures>>

\* a caller of Notification.create_notification that pushes nothing itself
Dispatch(d) == \E priority \in Priorities : create_notification(d, "u1", "message", priority, FALSE)

\* process_notification: NotificationPreference.get_user_preference for the
\* method at hand
NpPref(d) ==
    /\ pc[d] = "np_pref"
    /\ loc' = [loc EXCEPT ![d].preference =
                 get_user_preference(notifications[loc[d].notif].recipient,
                                     notifications[loc[d].notif].notification_type,
                                     DeliveryMethods[loc[d].method])]
    /\ pc' = [pc EXCEPT ![d] = "np_should"]
    /\ UNCHANGED notifVars
    /\ UNCHANGED <<conversations, messages, notifications, typing, room, sess, chan, out,
                   groupLog, now, failures>>

\* process_notification: preference.should_send_notification(instance); only
\* the in_app branch writes, the email and push branches print
NpShould(d) ==
    /\ pc[d] = "np_should"
    /\ LET decision == should_send_notification(loc[d].preference,
                                                notifications[loc[d].notif], now) IN
       /\ loc' = [loc EXCEPT ![d].should = Append(@, decision)]
       /\ pc' = [pc EXCEPT ![d] =
                   IF decision /\ DeliveryMethods[loc[d].method] = "in_app"
                   THEN "np_mark" ELSE "np_next"]
    /\ UNCHANGED notifVars
    /\ UNCHANGED <<conversations, messages, notifications, typing, room, sess, chan, out,
                   groupLog, now, failures>>

\* Notification.mark_as_delivered(method): one flag, status and sent_at, saved
\* with update_fields
mark_as_delivered(n, method) ==
    [n EXCEPT !.in_app_delivered = IF method = "in_app" THEN TRUE ELSE @,
              !.email_delivered = IF method = "email" THEN TRUE ELSE @,
              !.push_delivered = IF method = "push" THEN TRUE ELSE @,
              !.status = "delivered",
              !.sent_at = now]

NpMark(d) ==
    /\ pc[d] = "np_mark"
    /\ notifications' = [notifications EXCEPT ![loc[d].notif] =
                            mark_as_delivered(@, DeliveryMethods[loc[d].method])]
    /\ pc' = [pc EXCEPT ![d] = "np_next"]
    /\ UNCHANGED notifVars
    /\ UNCHANGED <<conversations, messages, typing, room, sess, loc, chan, out, groupLog,
                   now, failures>>

\* process_notification: the next method of the loop, or back to the caller
NpNext(d) ==
    /\ pc[d] = "np_next"
    /\ IF loc[d].method < Len(DeliveryMethods)
       THEN /\ loc' = [loc EXCEPT ![d].method = @ + 1]
            /\ pc' = [pc EXCEPT ![d] = "np_pref"]
       ELSE /\ loc' = [loc EXCEPT ![d].outcome = IF loc[d].push THEN @ ELSE "ok"]
            /\ pc' = [pc EXCEPT ![d] = IF loc[d].push THEN "np_push" ELSE "idle"]
    /\ UNCHANGED notifVars
    /\ UNCHANGED <<conversations, messages, notifications, typing, room, sess, chan, out,
                   groupLog, now, failures>>

\* --------------------------------------------------- notifications/utils.py
Pushes == Cardinality({k \in 1..Len(groupLog) : groupLog[k].type = "notification"})
PushesInFlight == Cardinality({w \in Workers : pc[w] = "np_push"})

\* channel_layer.group_send(user_<id>, {'type': 'notification', ...})
send_notification_to_user(u, data) ==
    /\ nchan' = Append2All(nchan, ugroup[u], [type |-> "notification"] @@ data)
    /\ groupLog' = Append(groupLog, [group |-> u, type |-> "notification"] @@ data)

\* check_notification_preferences: get_user_preference is called without its
\* delivery_method argument, the TypeError is caught and True returned
check_notification_preferences(u, ntype) == TRUE

\* send_notification_with_preferences(user, notification_type, data)
send_notification_with_preferences(d, u, ntype, priority) ==
    /\ pc[d] = "idle"
    /\ Pushes + PushesInFlight < MaxPushes
    /\ IF check_notification_preferences(u, ntype)
       THEN send_notification_to_user(u, [id |-> 0, user |-> u, ntype |-> ntype,
                                          priority |-> priority, at |-> now])
       ELSE /\ nchan' = nchan
            /\ groupLog' = groupLog
    /\ UNCHANGED <<conversations, messages, notifications, typing, room, sess, pc, loc,
                   chan, out, now, failures, preferences, ugroup, nsess, nout>>

SendWithPreferences(d) ==
    \E priority \in Priorities :
        send_notification_with_preferences(d, "u1", "message", priority)

\* broadcast_message_notification(message, recipient): create_notification
\* with the default priority, then send_notification_to_user
broadcast_message_notification(d, u) ==
    /\ Pushes + PushesInFlight < MaxPushes
    /\ create_notification(d, u, "message", "normal", TRUE)

NpPush(d) ==
    /\ pc[d] = "np_push"
    /\ send_notification_to_user(notifications[loc[d].notif].recipient,
                                 [id |-> loc[d].notif,
                                  user |-> notifications[loc[d].notif].recipient,
                                  ntype |-> notifications[loc[d].notif].notification_type,
                                  priority |-> notifications[loc[d].notif].priority,
                                  at |-> now])
    /\ pc' = [pc EXCEPT ![d] = "idle"]
    /\ loc' = [loc EXCEPT ![d].sent = TRUE, ![d].outcome = "ok"]
    /\ UNCHANGED <<conversations, messages, notifications, typing, room, sess, chan, out,
                   now, failures, preferences, ugroup, nsess, nout>>

\* ------------------------------------------ ChatConsumer.mark_message_read
\* Message.objects.get(id=message_id); Message.DoesNotExist: pass.  Then
\* Message.mark_as_read tests read_by_user on the instance just read.
ReadGet(s) ==
    /\ pc[s] = "read_get"
    /\ IF MessageExists(loc[s].msg)
       THEN /\ loc' = [loc EXCEPT ![s].read_flag = messages[loc[s].msg].read_by_user]
            /\ pc' = [pc EXCEPT ![s] =
                        IF messages[loc[s].msg].read_by_user THEN "read_send"
                        ELSE "read_save"]
       ELSE /\ loc' = [loc EXCEPT ![s].outcome = "not_found"]
            /\ pc' = [pc EXCEPT ![s] = "read_send"]
    /\ UNCHANGED notifVars
    /\ UNCHANGED <<conversations, messages, notifications, typing, room, sess, chan, out,
                   groupLog, now, failures>>

\* Message.mark_as_read, the branch taken when the instance was unread:
\* save(update_fields=['read_by_user', 'read_at', 'updated_at'])
mark_as_read(m) == [m EXCEPT !.read_by_user = TRUE, !.read_at = now]

ReadSave(s) ==
    /\ pc[s] = "read_save"
    /\ messages' = [messages EXCEPT ![loc[s].msg] = mark_as_read(@)]
    /\ pc' = [pc EXCEPT ![s] = "read_send"]
    /\ UNCHANGED notifVars
    /\ UNCHANGED <<conversations, notifications, typing, room, sess, loc, chan, out,
                   groupLog, now, failures>>

\* ChatConsumer.handle_message_read, the group_send: read_at is timezone.now()
ReadSend(s) ==
    /\ pc[s] = "read_send"
    /\ group_send(sess[s].conversation_id,
                  [type |-> "message_read", id |-> loc[s].msg, user |-> sess[s].user,
                   at |-> now])
    /\ pc' = [pc EXCEPT ![s] = "idle"]
    /\ loc' = [loc EXCEPT ![s].sent = TRUE,
                          ![s].outcome = IF @ = "running" THEN "ok" ELSE @]
    /\ UNCHANGED notifVars
    /\ UNCHANGED <<conversations, messages, notifications, typing, room, sess, out, now,
                   failures>>

\* ChatConsumer.message_read: forward the group event to the client
message_read(s) ==
    /\ sess[s].state = "joined"
    /\ pc[s] = "idle"
    /\ chan[s] # <<>>
    /\ Head(chan[s]).type = "message_read"
    /\ out' = [out EXCEPT ![s] = Append(@, Head(chan[s]))]
    /\ chan' = [chan EXCEPT ![s] = Tail(@)]
    /\ UNCHANGED notifVars
    /\ UNCHANGED <<conversations, messages, notifications, typing, room, sess, pc, loc,
                   groupLog, now, failures>>

\* ------------------------------------------------ Message status methods
\* Message.Status, and the two strings save_message and the webhook store
MessageStatuses == {"pending", "sent", "delivered", "read", "failed"}
StoredStatuses == MessageStatuses \cup {"Sent", "Delivered"}

\* a caller loads the instance it is going to call a method on
MsgLoad(w, i) ==
    /\ pc[w] = "idle"
    /\ MessageExists(i)
    /\ loc' = [loc EXCEPT ![w] = [NoLoc EXCEPT !.msg = i,
                                               !.status = messages[i].status,
                                               !.read_flag = messages[i].read_by_user,
                                               !.outcome = "running"]]
    /\ pc' = [pc EXCEPT ![w] = "msg_loaded"]
    /\ UNCHANGED notifVars
    /\ UNCHANGED <<conversations, messages, notifications, typing, room, sess, chan, out,
                   groupLog, now, failures>>

\* mutant: the status is set whatever it was
mark_as_delivered_always(status) == "delivered"

\* Message.mark_as_delivered: the status the instance has afterwards
message_mark_as_delivered(status) ==
    IF status \in {"pending", "sent"} THEN "delivered" ELSE status

\* Message.mark_as_delivered on the loaded instance; save(update_fields=
\* ['status', 'updated_at']) is issued only inside the if
MsgMarkDelivered(w) ==
    /\ pc[w] = "msg_loaded"
    /\ messages' = IF message_mark_as_delivered(loc[w].status) # loc[w].status
                   THEN [messages EXCEPT ![loc[w].msg].status =
                            message_mark_as_delivered(loc[w].status)]
                   ELSE messages
    /\ loc' = [loc EXCEPT ![w].outcome = "mark_as_delivered"]
    /\ pc' = [pc EXCEPT ![w] = "idle"]
    /\ UNCHANGED notifVars
    /\ UNCHANGED <<conversations, notifications, typing, room, sess, chan, out, groupLog,
                   now, failures>>

\* Message.mark_as_failed on the loaded instance
MsgMarkFailed(w) ==
    /\ pc[w] = "msg_loaded"
    /\ messages' = [messages EXCEPT ![loc[w].msg].status = "failed"]
    /\ loc' = [loc EXCEPT ![w].outcome = "mark_as_failed"]
    /\ pc' = [pc EXCEPT ![w] = "idle"]
    /\ UNCHANGED notifVars
    /\ UNCHANGED <<conversations, notifications, typing, room, sess, chan, out, groupLog,
                   now, failures>>

\* Message.mark_as_read on the loaded instance
MsgMarkRead(w) ==
    /\ pc[w] = "msg_loaded"
    /\ messages' = IF loc[w].read_flag THEN messages
                   ELSE [messages EXCEPT ![loc[w].msg] = mark_as_read(@)]
    /\ loc' = [loc EXCEPT ![w].outcome = "mark_as_read"]
    /\ pc' = [pc EXCEPT ![w] = "idle"]
    /\ UNCHANGED notifVars
    /\ UNCHANGED <<conversations, notifications, typing, room, sess, chan, out, groupLog,
                   now, failures>>

\* ------------------------------------------- RespondIOMessageWebhook.post
\* token check, Customer and Conversation get_or_create (both rows exist)
WebhookPost(w) ==
    /\ pc[w] = "idle"
    /\ Len(messages) + InFlight < MaxMessages
    /\ loc' = [loc EXCEPT ![w] = [NoLoc EXCEPT !.conv = conversations["c1"],
                                               !.content = "hi",
                                               !.outcome = "running"]]
    /\ pc' = [pc EXCEPT ![w] = "save_create"]
    /\ UNCHANGED notifVars
    /\ UNCHANGED <<conversations, messages, notifications, typing, room, sess, chan, out,
                   groupLog, now, failures>>

\* ------------------------------------------------------------ environment
\* Conversation.close_conversation
close_conversation(c) ==
    /\ conversations[c].status = "active"
    /\ conversations' = [conversations EXCEPT ![c].status = "closed"]
    /\ UNCHANGED notifVars
    /\ UNCHANGED <<messages, notifications, typing, room, sess, pc, loc, chan, out, groupLog,
                   now, failures>>

Tick ==
    /\ now < MaxTime
    /\ now' = now + 1
    /\ UNCHANGED notifVars
    /\ UNCHANGED <<conversations, messages, notifications, typing, room, sess, pc, loc, chan,
                   out, groupLog, failures>>

\* The store raises on the statement the worker is about to issue.  Inside
\* save_message the exception is caught and None returned (no broadcast); in
\* the webhook view it propagates (HTTP 500).  Rows already written stay: each
\* statement was committed on its own.
StoreError(w) ==
    /\ pc[w] \in {"save_get", "save_create", "sig_time", "sig_count", "read_get",
                  "read_save"}
    /\ failures < MaxFailures
    /\ failures' = failures + 1
    /\ IF pc[w] \in {"read_get", "read_save"}
       THEN \* mark_message_read logs it; handle_message_read goes on to broadcast
            /\ pc' = [pc EXCEPT ![w] = "read_send"]
            /\ loc' = [loc EXCEPT ![w].outcome = "failed"]
       ELSE Finish(w, "failed")
    /\ UNCHANGED notifVars
    /\ UNCHANGED <<conversations, messages, notifications, typing, room, sess, chan, out,
                   groupLog, now>>

\* ---------------------------------------------------------- specification
JoinedSession(u, c) == [user |-> u, conversation_id |-> c, state |-> "joined",
                        accepted |-> TRUE, disconnected |-> FALSE]

\* NotificationConsumer instances: js are the ones u1 has open (in user_u1),
\* the others have not connected yet; no NotificationPreference row exists
NotifySideInit(js) ==
    /\ preferences = {}
    /\ ugroup = [u \in Users |-> IF u = "u1" THEN js ELSE {}]
    /\ nsess = [n \in NotifSessions |-> IF n \in js THEN JoinedNSession("u1")
                                        ELSE NewNSession]
    /\ nchan = [n \in NotifSessions |-> <<>>]
    /\ nout = [n \in NotifSessions |-> <<>>]

Init ==
    /\ conversations = [c \in ConvIds |->
                          [id |-> c, status |-> "active", assigned_user |-> "u1",
                           message_count |-> 0, last_message_at |-> 0]]
    /\ messages = <<>>
    /\ notifications = <<>>
    /\ typing = {}
    /\ sess = [s \in Sessions |-> IF s = "s1" THEN JoinedSession("u1", "c1")
                                  ELSE JoinedSession("m1", "c1")]
    /\ room = [c \in ConvIds \cup MissingConvIds |-> IF c = "c1" THEN Sessions ELSE {}]
    /\ pc = [w \in Workers |-> "idle"]
    /\ loc = [w \in Workers |-> NoLoc]
    /\ chan = [s \in Sessions |-> <<>>]
    /\ out = [s \in Sessions |-> <<>>]
    /\ groupLog = <<>>
    /\ now = 1
    /\ failures = 0
    /\ NotifySideInit(NotifSessions)

Next ==
    \/ \E s \in Sessions : ReceiveChat(s)
    \/ \E w \in Workers : SaveGet(w)
    \/ \E w \in Workers : SaveCreate(w)
    \/ \E w \in Workers : SigTime(w)
    \/ \E w \in Workers : SigCount(w)
    \/ \E s \in Sessions : Broadcast(s)
    \/ \E s \in Sessions : chat_message(s)
    \/ \E w \in Webhooks : WebhookPost(w)
    \/ \E c \in ConvIds : close_conversation(c)
    \/ \E w \in Workers : StoreError(w)
    \/ Tick

Spec == Init /\ [][Next]_vars

\* Sessions from the moment the socket opens: connect and disconnect
SessionInit ==
    /\ \E a \in {None, "u1"} :
          conversations = [c \in ConvIds |->
                             [id |-> c, status |-> "active", assigned_user |-> a,
                              message_count |-> 0, last_message_at |-> 0]]
    /\ messages = <<>>
    /\ notifications = <<>>
    /\ typing = {}
    /\ sess = [s \in Sessions |-> NewSession]
    /\ room = [c \in ConvIds \cup MissingConvIds |-> {}]
    /\ pc = [w \in Workers |-> "idle"]
    /\ loc = [w \in Workers |-> NoLoc]
    /\ chan = [s \in Sessions |-> <<>>]
    /\ out = [s \in Sessions |-> <<>>]
    /\ groupLog = <<>>
    /\ now = 1
    /\ failures = 0
    /\ NotifySideInit({})

SessionNext ==
    \/ \E s \in Sessions, p \in Principals, c \in ConvIds \cup MissingConvIds :
          connect(s, p, c)
    \/ \E s \in Sessions : disconnect(s)
    \/ \E s \in Sessions : DisconnectLeave(s)

SpecSession == SessionInit /\ [][SessionNext]_vars

\* Read receipts on a conversation that holds one message: the state Spec
\* reaches once s1's "hi" has gone through the pipeline and both members have
\* been sent the chat_message
FirstEvent == [type |-> "chat_message", id |-> 1, user |-> "u1", at |-> 1]

ReadInit ==
    /\ conversations = [c \in ConvIds |->
                          [id |-> c, status |-> "active", assigned_user |-> "u1",
                           message_count |-> 1, last_message_at |-> 1]]
    /\ messages = <<[id |-> 1, conversation |-> "c1", content |-> "hi",
                     sender_type |-> "User", sender_user |-> "u1",
                     sender_customer |-> None, status |-> "Sent",
                     read_by_user |-> FALSE, read_at |-> 0, reply_to |-> 0,
                     created_at |-> 1, sent_at |-> 1]>>
    /\ notifications = <<>>
    /\ typing = {}
    /\ sess = [s \in Sessions |-> IF s = "s1" THEN JoinedSession("u1", "c1")
                                  ELSE JoinedSession("m1", "c1")]
    /\ room = [c \in ConvIds \cup MissingConvIds |-> IF c = "c1" THEN Sessions ELSE {}]
    /\ pc = [w \in Workers |-> "idle"]
    /\ loc = [w \in Workers |-> NoLoc]
    /\ chan = [s \in Sessions |-> <<>>]
    /\ out = [s \in Sessions |-> <<FirstEvent>>]
    /\ groupLog = <<[group |-> "c1"] @@ FirstEvent>>
    /\ now = 1
    /\ failures = 0
    /\ NotifySideInit({})

ReadNext ==
    \/ \E s \in Sessions : ReceiveRead(s)
    \/ \E s \in Sessions : ReadGet(s)
    \/ \E s \in Sessions : ReadSave(s)
    \/ \E s \in Sessions : ReadSend(s)
    \/ \E s \in Sessions : message_read(s)
    \/ \E w \in Sessions : StoreError(w)
    \/ Tick

SpecRead == ReadInit /\ [][ReadNext]_vars

\* Typing and the end of sessions: both chat sessions are in room c1, s1 is
\* u1's and s2 is u1's second connection or the manager's; the notification
\* socket is not open yet
TypingInit ==
    /\ conversations = [c \in ConvIds |->
                          [id |-> c, status |-> "active", assigned_user |-> "u1",
                           message_count |-> 0, last_message_at |-> 0]]
    /\ messages = <<>>
    /\ notifications = <<>>
    /\ typing = {}
    /\ \E u \in {"u1", "m1"} :
          sess = [s \in Sessions |-> IF s = "s1" THEN JoinedSession("u1", "c1")
                                     ELSE JoinedSession(u, "c1")]
    /\ room = [c \in ConvIds \cup MissingConvIds |-> IF c = "c1" THEN Sessions ELSE {}]
    /\ pc = [w \in Workers |-> "idle"]
    /\ loc = [w \in Workers |-> NoLoc]
    /\ chan = [s \in Sessions |-> <<>>]
    /\ out = [s \in Sessions |-> <<>>]
    /\ groupLog = <<>>
    /\ now = 1
    /\ failures = 0
    /\ NotifySideInit({})

TypingNext ==
    \/ \E s \in Sessions : ReceiveTyping(s)
    \/ \E s \in Sessions : TypGet(s)
    \/ \E s \in Sessions : TypSelect(s)
    \/ \E s \in Sessions : TypInsert(s)
    \/ \E s \in Sessions : TypReget(s)
    \/ \E s \in Sessions : TypSave(s)
    \/ \E s \in Sessions : TypStop(s)
    \/ \E s \in Sessions : TypSend(s)
    \/ \E s \in Sessions : typing_indicator(s)
    \/ \E s \in Sessions : disconnect(s)
    \/ \E s \in Sessions : DisconnectLeave(s)
    \/ \E n \in NotifSessions, p \in {"u1", Anonymous} : NConnect(n, p)
    \/ \E n \in NotifSessions : NDisconnect(n)

SpecTyping == TypingInit /\ [][TypingNext]_vars

\* u1's NotificationPreference row for (message, in_app)
InAppPref(enabled, minimum, qstart, qend, weekend, cap) ==
    [user |-> "u1", notification_type |-> "message", delivery_method |-> "in_app",
     is_enabled |-> enabled, minimum_priority |-> minimum, quiet_hours_start |-> qstart,
     quiet_hours_end |-> qend, weekend_enabled |-> weekend, max_per_day |-> cap]

\* the chat side at rest, as in Init
ChatSideInit ==
    /\ conversations = [c \in ConvIds |->
                          [id |-> c, status |-> "active", assigned_user |-> "u1",
                           message_count |-> 0, last_message_at |-> 0]]
    /\ messages = <<>>
    /\ typing = {}
    /\ sess = [s \in Sessions |-> IF s = "s1" THEN JoinedSession("u1", "c1")
                                  ELSE JoinedSession("m1", "c1")]
    /\ room = [c \in ConvIds \cup MissingConvIds |-> IF c = "c1" THEN Sessions ELSE {}]
    /\ pc = [w \in Workers |-> "idle"]
    /\ loc = [w \in Workers |-> NoLoc]
    /\ chan = [s \in Sessions |-> <<>>]
    /\ out = [s \in Sessions |-> <<>>]
    /\ groupLog = <<>>
    /\ failures = 0

\* Dispatch and push on a Tuesday at time of day 2: u1 has the notification
\* socket open and either no (message, in_app) row or one that is disabled,
\* has a high floor, is in its quiet hours, or has a daily cap of 1 or 2
NotifyPrefs ==
    {InAppPref(FALSE, "normal", 0, 0, TRUE, 0),
     InAppPref(TRUE, "high", 0, 0, TRUE, 0),
     InAppPref(TRUE, "low", 2, 3, TRUE, 0),
     InAppPref(TRUE, "low", 0, 0, TRUE, 1),
     InAppPref(TRUE, "low", 0, 0, TRUE, 2)}

NotifyInit ==
    /\ ChatSideInit
    /\ notifications = <<>>
    /\ now = DayLen + 2
    /\ \E ps \in {{}} \cup {{r} : r \in NotifyPrefs} : preferences = ps
    /\ ugroup = [u \in Users |-> IF u = "u1" THEN NotifSessions ELSE {}]
    /\ nsess = [n \in NotifSessions |-> JoinedNSession("u1")]
    /\ nchan = [n \in NotifSessions |-> <<>>]
    /\ nout = [n \in NotifSessions |-> <<>>]

NotifyNext ==
    \/ \E d \in Dispatchers : Dispatch(d)
    \/ \E d \in Dispatchers : broadcast_message_notification(d, "u1")
    \/ \E d \in Dispatchers : SendWithPreferences(d)
    \/ \E d \in Dispatchers : NpPref(d)
    \/ \E d \in Dispatchers : NpShould(d)
    \/ \E d \in Dispatchers : NpMark(d)
    \/ \E d \in Dispatchers : NpNext(d)
    \/ \E d \in Dispatchers : NpPush(d)
    \/ \E n \in NotifSessions : notification(n)

SpecNotify == NotifyInit /\ [][NotifyNext]_vars

\* should_send_notification over its inputs: any (message, in_app) row of u1
\* or none, a Tuesday or a Saturday at any time of day, and a table that
\* already holds notifications of the type, some of today and some of the day
\* before; one more notification of any priority is then dispatched
ShouldPrefs ==
    {InAppPref(e, m, q[1], q[2], w, cap) :
        e \in BOOLEAN, m \in Priorities, q \in {<<0, 0>>, <<2, 3>>, <<4, 1>>},
        w \in BOOLEAN, cap \in 0..2}

ShouldInstants == {DayLen + h : h \in 1..DayLen} \cup {5 * DayLen + h : h \in 1..DayLen}

EarlierNotification(k, at) ==
    [id |-> k, recipient |-> "u1", notification_type |-> "message",
     priority |-> "normal", status |-> "pending", in_app_delivered |-> FALSE,
     email_delivered |-> FALSE, push_delivered |-> FALSE, object_id |-> 0,
     created_at |-> at, sent_at |-> 0]

ShouldInit ==
    /\ ChatSideInit
    /\ now \in ShouldInstants
    /\ \E today \in 0..(MaxNotifications - 1) :
          notifications = [k \in 1..(MaxNotifications - 1) |->
                             EarlierNotification(k, IF k <= today THEN now
                                                    ELSE now - DayLen)]
    /\ \E ps \in {{}} \cup {{r} : r \in ShouldPrefs} : preferences = ps
    /\ ugroup = [u \in Users |-> {}]
    /\ nsess = [n \in NotifSessions |-> NewNSession]
    /\ nchan = [n \in NotifSessions |-> <<>>]
    /\ nout = [n \in NotifSessions |-> <<>>]

ShouldNext ==
    \/ \E d \in Dispatchers : Dispatch(d)
    \/ \E d \in Dispatchers : NpPref(d)
    \/ \E d \in Dispatchers : NpShould(d)
    \/ \E d \in Dispatchers : NpMark(d)
    \/ \E d \in Dispatchers : NpNext(d)

SpecShould == ShouldInit /\ [][ShouldNext]_vars

\* The status methods of Message on a table of two messages whose status is
\* any of the stored strings; two workers load and call
StoredMessage(i, status) ==
    [id |-> i, conversation |-> "c1", content |-> "hi", sender_type |-> "User",
     sender_user |-> "u1", sender_customer |-> None, status |-> status,
     read_by_user |-> FALSE, read_at |-> 0, reply_to |-> 0, created_at |-> 1,
     sent_at |-> 1]

StatusInit ==
    /\ \E s1 \in StoredStatuses, s2 \in {"pending", "Sent"} :
          messages = <<StoredMessage(1, s1), StoredMessage(2, s2)>>
    /\ conversations = [c \in ConvIds |->
                          [id |-> c, status |-> "active", assigned_user |-> "u1",
                           message_count |-> 2, last_message_at |-> 1]]
    /\ notifications = <<>>
    /\ typing = {}
    /\ sess = [s \in Sessions |-> NewSession]
    /\ room = [c \in ConvIds \cup MissingConvIds |-> {}]
    /\ pc = [w \in Workers |-> "idle"]
    /\ loc = [w \in Workers |-> NoLoc]
    /\ chan = [s \in Sessions |-> <<>>]
    /\ out = [s \in Sessions |-> <<>>]
    /\ groupLog = <<>>
    /\ now = 1
    /\ failures = 0
    /\ NotifySideInit({})

StatusNext ==
    \/ \E w \in Dispatchers, i \in 1..2 : MsgLoad(w, i)
    \/ \E w \in Dispatchers : MsgMarkDelivered(w)
    \/ \E w \in Dispatchers : MsgMarkFailed(w)
    \/ \E w \in Dispatchers : MsgMarkRead(w)
    \/ Tick

SpecStatus == StatusInit /\ [][StatusNext]_vars

\* The idle sweep: minutes after the conversation began, with the indicators
\* earlier typing left behind.  u1's row, if there is one, was last saved
\* before the cutoff, at the cutoff or a minute ago; the manager's row is old
\* and typing.  Both sessions are u1's; a periodic task runs the sweep.
SweepNow == older_than_minutes + 2

IndicatorRow(i, u, flag, at) ==
    [id |-> i, conversation |-> "c1", user |-> u, is_typing |-> flag, last_activity |-> at]

SweepInit ==
    /\ conversations = [c \in ConvIds |->
                          [id |-> c, status |-> "active", assigned_user |-> "u1",
                           message_count |-> 0, last_message_at |-> 0]]
    /\ messages = <<>>
    /\ notifications = <<>>
    /\ \E mine \in {{}} \cup {{IndicatorRow(1, "u1", flag, at)} :
                                  flag \in BOOLEAN,
                                  at \in {1, SweepNow - older_than_minutes, SweepNow - 1}},
          others \in {{}, {IndicatorRow(2, "m1", TRUE, 1)}} :
          typing = mine \cup others
    /\ sess = [s \in Sessions |-> JoinedSession("u1", "c1")]
    /\ room = [c \in ConvIds \cup MissingConvIds |-> IF c = "c1" THEN Sessions ELSE {}]
    /\ pc = [w \in Workers |-> "idle"]
    /\ loc = [w \in Workers |-> NoLoc]
    /\ chan = [s \in Sessions |-> <<>>]
    /\ out = [s \in Sessions |-> <<>>]
    /\ groupLog = <<>>
    /\ now = SweepNow
    /\ failures = 0
    /\ NotifySideInit({})

SweepNext ==
    \/ \E s \in Sessions : ReceiveTyping(s)
    \/ \E s \in Sessions : TypGet(s)
    \/ \E s \in Sessions : TypSelect(s)
    \/ \E s \in Sessions : TypInsert(s)
    \/ \E s \in Sessions : TypReget(s)
    \/ \E s \in Sessions : TypSave(s)
    \/ \E s \in Sessions : TypStop(s)
    \/ \E s \in Sessions : TypSend(s)
    \/ \E s \in Sessions : typing_indicator(s)
    \/ \E w \in Sweepers : SweepCutoff(w)
    \/ \E w \in Sweepers : SweepDelete(w)

SpecSweep == SweepInit /\ [][SweepNext]_vars

\* Read receipts with a second conversation in the store: message 1 is c1's,
\* message 2 belongs to c2, which no session has joined
OtherConvIds == {"c2"}

CrossReadInit ==
    /\ conversations = [c \in ConvIds \cup OtherConvIds |->
                          [id |-> c, status |-> "active", assigned_user |-> "u1",
                           message_count |-> 1, last_message_at |-> 1]]
    /\ messages = <<[StoredMessage(1, "Sent") EXCEPT !.conversation = "c1"],
                    [StoredMessage(2, "Sent") EXCEPT !.conversation = "c2"]>>
    /\ notifications = <<>>
    /\ typing = {}
    /\ sess = [s \in Sessions |-> IF s = "s1" THEN JoinedSession("u1", "c1")
                                  ELSE JoinedSession("m1", "c1")]
    /\ room = [c \in ConvIds \cup MissingConvIds |-> IF c = "c1" THEN Sessions ELSE {}]
    /\ pc = [w \in Workers |-> "idle"]
    /\ loc = [w \in Workers |-> NoLoc]
    /\ chan = [s \in Sessions |-> <<>>]
    /\ out = [s \in Sessions |-> <<FirstEvent>>]
    /\ groupLog = <<[group |-> "c1"] @@ FirstEvent>>
    /\ now = 1
    /\ failures = 0
    /\ NotifySideInit({})

SpecCrossRead == CrossReadInit /\ [][ReadNext]_vars

\* Replies: the conversation holds message 1 and the members submit
\* chat_message frames with a reply_to
ReplyNext ==
    \/ \E s \in Sessions : ReceiveReply(s)
    \/ \E s \in Sessions : SaveGet(s)
    \/ \E s \in Sessions : SaveReply(s)
    \/ \E s \in Sessions : SaveCreate(s)
    \/ \E s \in Sessions : SigTime(s)
    \/ \E s \in Sessions : SigCount(s)
    \/ \E s \in Sessions : Broadcast(s)
    \/ \E s \in Sessions : chat_message(s)
    \/ Tick

SpecReply == ReadInit /\ [][ReplyNext]_vars

\* ================================================================ claims
AllIdle == \A w \in Workers : pc[w] = "idle"

\* no worker is still inside the submission that inserted message i
Completed(i) == \A w \in Workers : loc[w].msg = i => pc[w] = "idle"

BySessions == \A i \in 1..Len(messages) : messages[i].sender_user # None

BroadcastsOf(i) ==
    {k \in 1..Len(groupLog) : groupLog[k].type = "chat_message" /\ groupLog[k].id = i}

NoEffect(w) ==
    /\ loc[w].msg = 0
    /\ ~loc[w].wrote_time
    /\ ~loc[w].wrote_count
    /\ ~loc[w].sent

\* C1: once the valid submissions that sessions issued concurrently to a
\* conversation have all completed (none failed), its message_count has grown
\* by exactly their number: no increment is lost.
C1_NoLostUpdate ==
    (AllIdle /\ failures = 0 /\ BySessions)
        => conversations["c1"].message_count = Len(messages)

\* C2: every joined member receives the chat_message events of a conversation
\* in the order in which the messages were persisted.
C2_BroadcastInPersistOrder ==
    \A s \in Sessions : \A i, j \in 1..Len(out[s]) :
        i < j => out[s][i].id < out[s][j].id

\* C5: a submit of a chat session that ended in failure for its caller
\* (save_message returned no Message) left nothing behind: no
\* Message row of it, no write to last_message_at or message_count, no
\* broadcast.
C5_FailedSubmitLeavesNothing ==
    \A s \in Sessions : loc[s].outcome = "failed" => NoEffect(s)

\* C6: a submit of a joined session that found the conversation closed is rejected: it persists no
\* Message, leaves message_count and last_message_at alone and broadcasts
\* nothing.
C6_ClosedConversationRejects ==
    \A s \in Sessions : loc[s].conv.status = "closed" => NoEffect(s)

\* C7: a frame that fails validation is answered with an error frame to the
\* originating client; nothing is persisted or broadcast for it and the
\* session stays joined.
C7_InvalidFrameAnswered ==
    \A s \in Sessions : loc[s].outcome = "invalid" =>
        /\ \E k \in 1..Len(out[s]) : out[s][k].type = "error"
        /\ NoEffect(s)
        /\ sess[s].state = "joined"

\* C8: once a message from a customer has been persisted in a conversation
\* with an assigned user and its submission has completed, a Notification of
\* type message, priority normal, for that assigned user exists for it.
C8_CustomerMessageNotifies ==
    \A i \in 1..Len(messages) :
        (/\ messages[i].sender_customer # None
         /\ conversations[messages[i].conversation].assigned_user # None
         /\ Completed(i)
         /\ failures = 0)
        => \E k \in 1..Len(notifications) :
              /\ notifications[k].notification_type = "message"
              /\ notifications[k].priority = "normal"
              /\ notifications[k].recipient =
                     conversations[messages[i].conversation].assigned_user
              /\ notifications[k].object_id = i

\* C9: every message persisted by a completed submission, from a chat session
\* or from the webhook, has been broadcast to the room exactly once.
C9_PersistedIsBroadcastOnce ==
    \A i \in 1..Len(messages) :
        (Completed(i) /\ failures = 0) => Cardinality(BroadcastsOf(i)) = 1

\* authorize(principal, conversation_id) as the access guard is specified
Authorized(p, c) ==
    /\ c \in ConvIds
    /\ is_authenticated(p)
    /\ \/ Role(p) \in {"manager", "system_admin"}
       \/ conversations[c].assigned_user = p

InNoRoom(s) == \A c \in DOMAIN room : s \notin room[c]

\* C3: a session whose principal is unauthenticated or fails the access guard
\* is closed straight from connecting: it is never accepted and never a member
\* of a room, the disconnect handling that follows included.
C3_UnauthorizedNeverJoins ==
    \A s \in Sessions :
        (sess[s].state # "connecting"
            /\ ~Authorized(sess[s].user, sess[s].conversation_id))
        => /\ sess[s].state = "closed"
           /\ ~sess[s].accepted
           /\ InNoRoom(s)

C3_Witness ==
    /\ sess["s1"].user = "u2" /\ sess["s1"].conversation_id = "c1"
    /\ sess["s1"].disconnected
    /\ sess["s2"].user = Anonymous /\ sess["s2"].state = "closed"

ConnectStep(s) == sess[s].state = "connecting" /\ sess'[s].state # "connecting"

\* C4: connect lets a principal in exactly when the conversation exists, the
\* principal is authenticated and is a manager, a system admin or the assigned
\* user (so never for a missing conversation, whatever the role), and deciding
\* it writes nothing to the store.
C4_AuthorizeDecision ==
    /\ [](\A s \in Sessions : sess[s].state # "connecting" =>
             (sess[s].accepted <=> Authorized(sess[s].user, sess[s].conversation_id)))
    /\ [][(\E s \in Sessions : ConnectStep(s)) =>
             UNCHANGED <<conversations, messages, notifications, typing>>]_vars

C4_Witness ==
    /\ sess["s1"].user = "m1" /\ sess["s1"].conversation_id = "c0"
    /\ sess["s1"].state = "closed" /\ ~sess["s1"].accepted
    /\ sess["s2"].user = "u1" /\ sess["s2"].conversation_id = "c1"
    /\ sess["s2"].accepted

\* C10: once a message is read, no later or overlapping mark_read changes its
\* read_at.
C10_ReadAtSetOnce ==
    [][\A i \in 1..Len(messages) :
          messages[i].read_by_user => messages'[i].read_at = messages[i].read_at]_vars

\* the step in which s issues the group_send of its typing handler
TypSendStep(s) == pc[s] = "typ_send" /\ pc'[s] = "idle"

PairTyping(c, u) == \E r \in IndicatorsOf(c, u) : r.is_typing

\* C11: a start_typing broadcasts a typing_indicator to the room only if it
\* moved the (conversation, user) pair from not_typing to typing; received
\* while the pair is already typing it broadcasts nothing.
C11_BroadcastOnlyOnTransition ==
    [][\A s \in Sessions :
          (TypSendStep(s) /\ loc[s].is_typing) => loc[s].changed]_vars

\* both chat sessions belong to one user and the last frame each of them
\* handled, to the end, was a typing_start
BothStarted ==
    /\ sess["s1"].user = sess["s2"].user
    /\ \A s \in Sessions : /\ sess[s].state = "joined"
                            /\ pc[s] = "idle"
                            /\ loc[s].is_typing
                            /\ loc[s].sent

\* C12: there is never more than one TypingIndicator row for a (conversation,
\* user) pair, and once the start_typing of two sessions of the same user have
\* both been handled, in whatever interleaving, the pair has exactly one row
\* and its is_typing is true.
C12_OneIndicatorPerPair ==
    /\ \A r1, r2 \in typing :
          (r1.conversation = r2.conversation /\ r1.user = r2.user) => r1 = r2
    /\ BothStarted =>
          /\ Cardinality(IndicatorsOf("c1", sess["s1"].user)) = 1
          /\ PairTyping("c1", sess["s1"].user)

C12_Witness ==
    /\ BothStarted
    /\ Cardinality(typing) = 1
    /\ \A s \in Sessions : loc[s].outcome = "ok"

\* the step in which the disconnect handler of chat session s runs its
\* stop_typing
DisconnectStep(s) == pc[s] = "idle" /\ pc'[s] = "disc_leave"

TypingBroadcasts(u, b) ==
    {k \in 1..Len(groupLog) : /\ groupLog[k].type = "typing_indicator"
                              /\ groupLog[k].user = u
                              /\ groupLog[k].is_typing = b}

\* s was the only session of its user, the last frame it handled was a
\* typing_start, and its disconnect handler has run to the end
DisconnectedWhileTyping(s) ==
    /\ sess[s].disconnected
    /\ loc[s].is_typing /\ loc[s].sent
    /\ \A o \in Sessions \ {s} : sess[o].user # sess[s].user

\* C19: when a chat session whose user is typing disconnects, the stop_typing
\* of the disconnect handler sends the room a typing_indicator with
\* is_typing = false for that user.
C19_DisconnectBroadcastsStop ==
    \A s \in Sessions :
        DisconnectedWhileTyping(s) => TypingBroadcasts(sess[s].user, FALSE) # {}

\* the step in which dispatcher d evaluates should_send_notification, and the
\* answer it got
ShouldStep(d) == pc[d] = "np_should" /\ pc'[d] # "np_should"

Decision(d) == loc[d].should[Len(loc[d].should)]

\* the daily-limit test of should_send_notification
CapReached(pref) == pref.max_per_day # 0 /\ today_count(pref, now) >= pref.max_per_day

\* C13 as stated: a notification below the preference's minimum priority is
\* refused (so low and normal are refused under minimum_priority = high), and
\* an urgent notification is delivered under every enabled preference,
\* whatever its quiet hours and weekend_enabled are.
C13_UrgentAlwaysDelivered ==
    [][\A d \in Dispatchers : ShouldStep(d) =>
          LET pref == loc[d].preference
              n == notifications[loc[d].notif] IN
          /\ (priority_order(n.priority) < priority_order(pref.minimum_priority)
                 => ~Decision(d)')
          /\ ((pref.minimum_priority = "high" /\ n.priority \in {"low", "normal"})
                 => ~Decision(d)')
          /\ ((pref.is_enabled /\ n.priority = "urgent") => Decision(d)')]_vars

\* C13, amended: the same, with the urgent notification delivered whatever
\* the quiet hours and weekend_enabled are unless the daily limit refuses it.
C13_PriorityFloorAndUrgent ==
    [][\A d \in Dispatchers : ShouldStep(d) =>
          LET pref == loc[d].preference
              n == notifications[loc[d].notif] IN
          /\ (priority_order(n.priority) < priority_order(pref.minimum_priority)
                 => ~Decision(d)')
          /\ ((pref.minimum_priority = "high" /\ n.priority \in {"low", "normal"})
                 => ~Decision(d)')
          /\ ((pref.is_enabled /\ n.priority = "urgent" /\ ~CapReached(pref))
                 => Decision(d)')]_vars

\* an urgent notification let through in quiet hours, on a Saturday with
\* weekend_enabled off, by a preference whose minimum is urgent
C13_Witness ==
    \E d \in Dispatchers :
        /\ pc[d] = "np_mark"
        /\ notifications[loc[d].notif].priority = "urgent"
        /\ loc[d].preference.minimum_priority = "urgent"
        /\ is_in_quiet_hours(loc[d].preference, now)
        /\ is_weekend_and_disabled(loc[d].preference, now)
        /\ Decision(d)

\* every rule of should_send_notification but the daily limit lets n through
OtherRulesPass(pref, n) ==
    /\ pref.is_enabled
    /\ priority_order(n.priority) >= priority_order(pref.minimum_priority)
    /\ ~(is_in_quiet_hours(pref, now) /\ n.priority # "urgent")
    /\ ~(is_weekend_and_disabled(pref, now) /\ n.priority # "urgent")

\* the notifications of k's type created for k's recipient before k on k's day
EarlierToday(k) ==
    Cardinality({j \in 1..(k - 1) :
                    /\ notifications[j].recipient = notifications[k].recipient
                    /\ notifications[j].notification_type = notifications[k].notification_type
                    /\ Date(notifications[j].created_at) = Date(notifications[k].created_at)})

\* C14: under a preference with max_per_day = N >= 1 and no other rule
\* blocking, dispatch gets should_deliver true for a notification exactly when
\* fewer than N notifications of the type were created for the recipient
\* earlier that day: true for the first N of the day, false afterwards.
C14_DailyCap ==
    [][\A d \in Dispatchers :
          (/\ ShouldStep(d)
           /\ loc[d].preference.max_per_day >= 1
           /\ OtherRulesPass(loc[d].preference, notifications[loc[d].notif]))
          => (Decision(d)' <=> EarlierToday(loc[d].notif) < loc[d].preference.max_per_day)]_vars

\* dispatcher d has walked all three methods for the notification it created
Dispatched(d) ==
    /\ pc[d] \in {"idle", "np_push"}
    /\ loc[d].notif # 0
    /\ Len(loc[d].should) = Len(DeliveryMethods)

JustCreated(d) == pc[d] = "np_pref" /\ loc[d].method = 1

\* C15: a Notification is inserted with its three delivery flags false, and
\* once its dispatch has walked the three channels each flag is true exactly
\* if should_deliver was true for that channel's preference.
C15_FlagsFollowDecisions ==
    \A d \in Dispatchers :
        /\ JustCreated(d) =>
              /\ ~notifications[loc[d].notif].in_app_delivered
              /\ ~notifications[loc[d].notif].email_delivered
              /\ ~notifications[loc[d].notif].push_delivered
        /\ Dispatched(d) =>
              /\ notifications[loc[d].notif].in_app_delivered <=> loc[d].should[1]
              /\ notifications[loc[d].notif].email_delivered <=> loc[d].should[2]
              /\ notifications[loc[d].notif].push_delivered <=> loc[d].should[3]

\* the three refusals of the (type, in_app) preference that the claim names,
\* for a payload of the given type and priority pushed to u at instant t
InAppRefuses(u, ntype, priority, t) ==
    LET pref == get_user_preference(u, ntype, "in_app") IN
    \/ ~pref.is_enabled
    \/ priority_order(priority) < priority_order(pref.minimum_priority)
    \/ (is_in_quiet_hours(pref, t) /\ priority # "urgent")

\* C16: no notification event is sent to user_<recipient> when the
\* recipient's (type, in_app) preference is disabled, has a minimum above the
\* payload's priority, or is in its quiet hours for a non-urgent payload.
C16_PushOnlyIfAllowed ==
    \A k \in 1..Len(groupLog) :
        groupLog[k].type = "notification" =>
            ~InAppRefuses(groupLog[k].group, groupLog[k].ntype, groupLog[k].priority,
                          groupLog[k].at)

\* the notification events sent to user_<u> so far
PushedTo(u) ==
    {k \in 1..Len(groupLog) : groupLog[k].type = "notification" /\ groupLog[k].group = u}

\* C17: once a customer message has been persisted in an active conversation
\* assigned to u1 and its submission has completed, with u1's (message,
\* in_app) preference letting a normal notification through and u1's
\* notification session joined, a notification event has been sent to that
\* session.
C17_CustomerMessagePushed ==
    \A i \in 1..Len(messages) :
        (/\ messages[i].sender_customer # None
         /\ Completed(i)
         /\ failures = 0
         /\ conversations[messages[i].conversation].status = "active"
         /\ conversations[messages[i].conversation].assigned_user = "u1"
         /\ ~InAppRefuses("u1", "message", "normal", now)
         /\ nsess["n1"].state = "joined" /\ nsess["n1"].user = "u1")
        => PushedTo("u1") # {}

\* C20: a conversation's last_message_at never decreases, and once the
\* submissions to it have all completed it equals the creation timestamp of
\* the message ordered last.
C20_LastMessageAt ==
    /\ [][\A c \in ConvIds :
            conversations'[c].last_message_at >= conversations[c].last_message_at]_vars
    /\ []((AllIdle /\ failures = 0 /\ messages # <<>>) =>
            conversations["c1"].last_message_at = messages[Len(messages)].created_at)

\* the recipient of d's notification has no NotificationPreference row for
\* the method d is at
NoRowFor(d) ==
    ~\E r \in preferences :
        /\ r.user = notifications[loc[d].notif].recipient
        /\ r.notification_type = notifications[loc[d].notif].notification_type
        /\ r.delivery_method = DeliveryMethods[loc[d].method]

\* C21: when the recipient has no NotificationPreference row for the (type,
\* channel) at hand, dispatch decides with the default preference (enabled,
\* minimum normal, no quiet hours, no daily cap): should_deliver is false for
\* a low notification and true for a normal, high or urgent one, at any time
\* of day, on any weekday and whatever the table already holds.
C21_DefaultPreference ==
    [][\A d \in Dispatchers :
          (ShouldStep(d) /\ NoRowFor(d)) =>
              /\ loc[d].preference = [user |-> notifications[loc[d].notif].recipient,
                                      notification_type |->
                                          notifications[loc[d].notif].notification_type,
                                      delivery_method |-> DeliveryMethods[loc[d].method],
                                      is_enabled |-> TRUE, minimum_priority |-> "normal",
                                      quiet_hours_start |-> 0, quiet_hours_end |-> 0,
                                      weekend_enabled |-> TRUE, max_per_day |-> 0]
              /\ Decision(d)' <=> notifications[loc[d].notif].priority # "low"]_vars

\* a normal notification let through on the in_app channel by the default, on
\* a Saturday, for a recipient without any row
C21_Witness ==
    \E d \in Dispatchers :
        /\ preferences = {}
        /\ pc[d] = "np_mark"
        /\ notifications[loc[d].notif].priority = "normal"
        /\ Weekday(now) = 5
        /\ Decision(d)

\* the step in which w calls mark_as_delivered, on an instance that still is
\* what the row holds
MarkDeliveredStep(w) ==
    /\ pc[w] = "msg_loaded"
    /\ loc'[w].outcome = "mark_as_delivered"
    /\ loc[w].status = messages[loc[w].msg].status

Persisted(s) == loc[s].content # "" /\ loc[s].msg # 0

\* C23: a message persisted for a frame that carried reply_to = id is stored
\* with reply_to = id.
C23_ReplyToRoundTrip ==
    \A s \in Sessions :
        (Persisted(s) /\ loc[s].reply_to_id # 0)
        => messages[loc[s].msg].reply_to = loc[s].reply_to_id

\* C24: a message a session creates is stored with status pending while the
\* conversation aggregates are being updated, and has status sent when its
\* chat_message event is about to be broadcast.
C24_PendingThenSent ==
    \A s \in Sessions :
        /\ pc[s] \in {"sig_time", "sig_count"} => messages[loc[s].msg].status = "pending"
        /\ pc[s] = "broadcast" => messages[loc[s].msg].status = "sent"

\* session s has handled a typing_start, nothing after it, and is connected
StillTyping(s) ==
    /\ sess[s].state = "joined"
    /\ pc[s] = "idle"
    /\ loc[s].is_typing
    /\ loc[s].outcome = "ok"

\* session o has sent no frame and its socket has been closed
ClosedSilent(o) == sess[o].state = "closed" /\ loc[o] = NoLoc

\* C30: when a user has two sessions in the conversation, one of which has
\* sent typing_start and no typing_stop, closing the other one leaves the
\* pair's indicator typing.
C30_OtherSessionCloseKeepsTyping ==
    \A s \in Sessions, o \in Sessions :
        (s # o /\ sess[s].user = sess[o].user /\ StillTyping(s) /\ ClosedSilent(o))
        => \E r \in IndicatorsOf(sess[s].conversation_id, sess[s].user) : r.is_typing

\* the message_read events sent to the groups so far
ReadReceipts == {k \in 1..Len(groupLog) : groupLog[k].type = "message_read"}

\* C28: a message_read event is sent to the room only for a message that
\* exists, and carries the read_at stored on that message; a frame naming a
\* missing message broadcasts nothing.
C28_ReceiptOnlyForStoredRead ==
    \A k \in ReadReceipts :
        /\ MessageExists(groupLog[k].id)
        /\ messages[groupLog[k].id].read_at = groupLog[k].at

\* C29: a session joined to conversation C sets the read flag and read_at
\* only on messages of C and sends a read receipt only for a message of C.
C29_ReadStaysInConversation ==
    /\ \A i \in 1..Len(messages) :
          messages[i].conversation \notin {sess[s].conversation_id : s \in Sessions}
          => ~messages[i].read_by_user /\ messages[i].read_at = 0
    /\ \A k \in ReadReceipts :
          MessageExists(groupLog[k].id)
          => messages[groupLog[k].id].conversation = groupLog[k].group

\* t lies in the half-open window [start, end) of the preference, which
\* wraps midnight when start > end; no window when either end is unset
InHalfOpenWindow(pref, t) ==
    /\ pref.quiet_hours_start # 0
    /\ pref.quiet_hours_end # 0
    /\ IF pref.quiet_hours_start <= pref.quiet_hours_end
       THEN pref.quiet_hours_start <= t /\ t < pref.quiet_hours_end
       ELSE t >= pref.quiet_hours_start \/ t < pref.quiet_hours_end

\* C27: the quiet-hours test a dispatcher applies to the preference it holds
\* is true exactly when the time of day lies in [start, end); it is false at
\* the end of the window and when start or end is unset.
C27_QuietHoursHalfOpen ==
    \A d \in Dispatchers :
        pc[d] = "np_should"
        => (is_in_quiet_hours(loc[d].preference, now)
            <=> InHalfOpenWindow(loc[d].preference, TimeOfDay(now)))

\* C25: a session that has handled a start_typing leaves the pair's indicator
\* in the table with last_activity at the time of that event, whether or not
\* the pair was typing before and whatever sweeps have run since.
C25_StartTypingRefreshes ==
    \A s \in Sessions :
        (pc[s] = "idle" /\ loc[s].is_typing /\ loc[s].outcome = "ok")
        => \E r \in IndicatorsOf(sess[s].conversation_id, sess[s].user) :
              r.last_activity = now

\* the step in which w issues the DELETE of the sweep
SweepStep(w) == pc[w] = "sweep_delete" /\ pc'[w] = "idle"

\* C26: after a sweep no indicator older than the cutoff is typing, every
\* indicator within the window is left as it was, no indicator is added or
\* modified, and nothing is sent to any room.
C26_SweepFrame ==
    [][\A w \in Sweepers :
          SweepStep(w)
          => /\ \A r \in typing' :
                   r.last_activity < now - older_than_minutes => ~r.is_typing
             /\ \A r \in typing :
                   r.last_activity >= now - older_than_minutes => r \in typing'
             /\ typing' \subseteq typing
             /\ UNCHANGED <<groupLog, chan, out>>]_vars

\* a sweep has deleted the manager's old typing row and left u1's row, which
\* is typing and was last saved exactly at the cutoff
C26_Witness ==
    \E w \in Sweepers :
        /\ pc[w] = "idle" /\ loc[w].outcome = "ok" /\ loc[w].changed
        /\ IndicatorsOf("c1", "m1") = {}
        /\ \E r \in IndicatorsOf("c1", "u1") :
              r.is_typing /\ r.last_activity = loc[w].cutoff_time
====
